---- MODULE Spec2Model ----
(***************************************************************************)
(* The ToDo / Pomodoro service of src/main.py: two module-level lists,     *)
(* `tasks` and `pomodoro_sessions`, and one HTTP handler per operation.    *)
(* Every handler runs to completion before the next request is served, so  *)
(* each handler is one action.  The last request served and the response   *)
(* it got are part of the state, so that what a client observes can be     *)
(* stated.                                                                 *)
(*                                                                         *)
(* Python objects are records whose DOMAIN is the set of attributes the    *)
(* class declares: reading or assigning an attribute outside it raises,    *)
(* and an exception that is not an HTTPException is answered 500.          *)
(***************************************************************************)
EXTENDS Integers, Sequences, FiniteSets, TLC

\* ------------------------------------------------------------------ bounds
MaxServed == 3      \* requests served in one run
MaxIds == 2         \* distinct identifiers (uuid4 values and path parameters)
MaxClock == 2       \* how far the wall clock advances in one run
MaxThreads == 2     \* requests that may be in flight at once

\* ------------------------------------------------------- program constants
MinNameLen == 3
MaxNameLen == 100
MaxDescriptionLen == 300
PomodoroMinutes == 25
SecondsPerMinute == 60

None == "<None>"
NoId == 0
Ids == 1..MaxIds
Titles == {"ab", "abc", "wxyz"}
Descriptions == {None, "note"}
StatusPattern == {"TODO", "IN_PROGRESS", "DONE"}
StatusQueries == {None, "", "TODO", "DONE"}

VARIABLES tasks, pomodoro_sessions, issued, clock, request, response, served,
          inflight

vars == <<tasks, pomodoro_sessions, issued, clock, request, response, served,
          inflight>>

\* ----------------------------------------------------------------- classes
\* class Task: the attributes a Task object has.
TaskFields == {"id", "name", "description", "status"}

\* class Task: the fields declared with Field(...), that is, with no default.
TaskRequired == {"name"}

\* class TaskCreate as the request validation applies it: a body that fails
\* it is answered 422 before the handler runs.
TaskCreateValid(body) ==
    /\ Len(body.title) >= MinNameLen
    /\ Len(body.title) <= MaxNameLen
    /\ (body.description # None => Len(body.description) <= MaxDescriptionLen)

TaskCreateBodies == [title : Titles, description : Descriptions]

\* Task(**kwargs) validates: a required field that is missing, or a value
\* outside its constraints, raises pydantic's ValidationError.  Keyword
\* arguments that name no field are ignored.
TaskValid(kwargs) ==
    /\ TaskRequired \subseteq DOMAIN kwargs
    /\ "name" \in DOMAIN kwargs =>
          /\ Len(kwargs.name) >= MinNameLen
          /\ Len(kwargs.name) <= MaxNameLen
    /\ ("description" \in DOMAIN kwargs /\ kwargs.description # None) =>
          Len(kwargs.description) <= MaxDescriptionLen
    /\ "status" \in DOMAIN kwargs => kwargs.status \in StatusPattern

\* The value Task(**kwargs) gives field f: the keyword argument, else the
\* field's default (id: a new uuid4, description: None, status: "TODO").
TaskFieldValue(kwargs, f, uid) ==
    IF f \in DOMAIN kwargs THEN kwargs[f]
    ELSE IF f = "id" THEN uid
    ELSE IF f = "status" THEN "TODO"
    ELSE None

\* The object Task(**kwargs) builds when the arguments are valid.
Task(kwargs, uid) == [f \in TaskFields |-> TaskFieldValue(kwargs, f, uid)]

\* PomodoroSession(task_id=..., start_time=..., end_time=..., completed=...)
PomodoroSession(task_id, start_time, end_time, completed) ==
    [task_id |-> task_id, start_time |-> start_time,
     end_time |-> end_time, completed |-> completed]

\* timedelta(minutes=25), in seconds.
SessionSeconds == PomodoroMinutes * SecondsPerMinute

\* --------------------------------------------------------------- responses
NoValue == << >>

\* A handler's return value, answered 200.
Ok(detail, value) ==
    [status |-> 200, detail |-> detail, raised |-> None, value |-> value]

\* raise HTTPException(status_code=code, detail=detail)
HTTPException(code, detail) ==
    [status |-> code, detail |-> detail, raised |-> "HTTPException", value |-> NoValue]

\* Any other exception leaves the handler and is answered 500.
ServerError(exc) ==
    [status |-> 500, detail |-> "Internal Server Error", raised |-> exc, value |-> NoValue]

\* The request body failed TaskCreate's validation.
Unprocessable ==
    [status |-> 422, detail |-> "validation error", raised |-> "RequestValidationError",
     value |-> NoValue]

Request(op, task_id, body, status) ==
    [op |-> op, task_id |-> task_id, title |-> body.title,
     description |-> body.description, status |-> status]

NoBody == [title |-> None, description |-> None]

\* The body a request (or a handler in flight) carries.
BodyOf(req) == [title |-> req.title, description |-> req.description]

\* ----------------------------------------------------------------- helpers
Min(S) == CHOOSE x \in S : \A y \in S : x <= y

\* any(p(x) for x in xs), where evaluating p raises on the elements at the
\* indexes `raises` and is true on those at `holds`: the elements are visited
\* in order and the first one that raises or holds decides.
AnyOutcome(raises, holds) ==
    IF raises \cup holds = {} THEN "False"
    ELSE IF Min(raises \cup holds) \in raises THEN "AttributeError"
    ELSE "True"

\* for x in xs: if x.id == task_id: ...   the index of the first match, 0 if none.
FirstTaskWithId(task_id) ==
    LET hit == {i \in 1..Len(tasks) : tasks[i].id = task_id}
    IN  IF hit = {} THEN 0 ELSE Min(hit)

\* ------------------------------------------------------------------- state
\* The handlers are plain `def` functions, which the framework runs on worker
\* threads: a handler in flight is at a position `pc` of its body.
Threads == 1..MaxThreads

Idle ==
    [op |-> "none", task_id |-> NoId, title |-> None, description |-> None,
     pc |-> "idle", passed |-> FALSE, copy |-> << >>]

Init ==
    /\ tasks = << >>
    /\ pomodoro_sessions = << >>
    /\ issued = {}
    /\ clock = 0
    /\ request = Request("none", NoId, NoBody, None)
    /\ response = Ok("", NoValue)
    /\ served = 0
    /\ inflight = [r \in Threads |-> Idle]

\* One request is served: it and its response become the last exchange.
Serve(req, resp) ==
    /\ served < MaxServed
    /\ served' = served + 1
    /\ request' = req
    /\ response' = resp
    /\ UNCHANGED inflight

\* Time passes between two requests.
Tick ==
    /\ clock < MaxClock
    /\ clock' = clock + 1
    /\ UNCHANGED <<tasks, pomodoro_sessions, issued, request, response, served,
                   inflight>>

\* --------------------------------------------------------------- POST /tasks
\* any(t.title == task.title for t in tasks)
CreateDuplicateCheck(task) ==
    LET raises == {i \in 1..Len(tasks) :
                        "title" \notin DOMAIN tasks[i] \/ "title" \notin DOMAIN task}
        holds == {i \in (1..Len(tasks)) \ raises : tasks[i].title = task.title}
    IN  AnyOutcome(raises, holds)

\* Task(title=task.title, description=task.description, status="TODO")
CreateKwargs(task) ==
    [title |-> task.title, description |-> task.description, status |-> "TODO"]

create_task ==
    \E task \in TaskCreateBodies :
        LET req == Request("create_task", NoId, task, None)
            dup == CreateDuplicateCheck(task)
        IN  IF ~TaskCreateValid(task)
            THEN /\ Serve(req, Unprocessable)
                 /\ UNCHANGED <<tasks, pomodoro_sessions, issued, clock>>
            ELSE IF dup = "AttributeError"
            THEN /\ Serve(req, ServerError("AttributeError"))
                 /\ UNCHANGED <<tasks, pomodoro_sessions, issued, clock>>
            ELSE IF dup = "True"
            THEN /\ Serve(req, HTTPException(400, "Task already exists"))
                 /\ UNCHANGED <<tasks, pomodoro_sessions, issued, clock>>
            ELSE IF ~TaskValid(CreateKwargs(task))
            THEN /\ Serve(req, ServerError("ValidationError"))
                 /\ UNCHANGED <<tasks, pomodoro_sessions, issued, clock>>
            ELSE \E uid \in Ids \ issued :
                    LET new_task == Task(CreateKwargs(task), uid)
                    IN  /\ tasks' = Append(tasks, new_task)
                        /\ issued' = issued \cup {uid}
                        /\ Serve(req, Ok("", <<new_task>>))
                        /\ UNCHANGED <<pomodoro_sessions, clock>>

\* ---------------------------------------------------------------- GET /tasks
\* `if status:` is false for None and for the empty string.
get_tasks_result(status) ==
    IF status # None /\ status # ""
    THEN SelectSeq(tasks, LAMBDA task : task.status = status)
    ELSE tasks

get_tasks ==
    \E status \in StatusQueries :
        /\ Serve(Request("get_tasks", NoId, NoBody, status), Ok("", get_tasks_result(status)))
        /\ UNCHANGED <<tasks, pomodoro_sessions, issued, clock>>

\* ------------------------------------------------------ GET /tasks/{task_id}
\* Mutant of get_task_result: the loop falls through and the handler returns
\* None instead of raising when no task has the id.
get_task_result_NoRaise(task_id) ==
    LET i == FirstTaskWithId(task_id)
    IN  IF i # 0 THEN Ok("", <<tasks[i]>>)
        ELSE Ok("", NoValue)

get_task_result(task_id) ==
    LET i == FirstTaskWithId(task_id)
    IN  IF i # 0 THEN Ok("", <<tasks[i]>>)
        ELSE HTTPException(404, "Task not found")

get_task ==
    \E task_id \in Ids :
        /\ Serve(Request("get_task", task_id, NoBody, None), get_task_result(task_id))
        /\ UNCHANGED <<tasks, pomodoro_sessions, issued, clock>>

\* ------------------------------------------------------ PUT /tasks/{task_id}
\* any(other.title == task.title and other.id != task.id for other in tasks):
\* `task` is the request body, a TaskCreate.
UpdateDuplicateCheck(task) ==
    LET raises == {i \in 1..Len(tasks) :
                        \/ "title" \notin DOMAIN tasks[i]
                        \/ "title" \notin DOMAIN task
                        \/ /\ tasks[i].title = task.title
                           /\ ("id" \notin DOMAIN tasks[i] \/ "id" \notin DOMAIN task)}
        holds == {i \in (1..Len(tasks)) \ raises :
                        tasks[i].title = task.title /\ tasks[i].id # task.id}
    IN  AnyOutcome(raises, holds)

\* t.title = task.title; t.description = task.description: assigning an
\* attribute that is no field of the model raises ValueError.
UpdateAssignable == {"title", "description"} \subseteq TaskFields

update_task_found(i, task) ==
    LET dup == UpdateDuplicateCheck(task)
    IN  IF dup = "AttributeError"
        THEN [response |-> ServerError("AttributeError"), tasks |-> tasks]
        ELSE IF dup = "True"
        THEN [response |-> HTTPException(400, "Task title must be unique"), tasks |-> tasks]
        ELSE IF ~UpdateAssignable
        THEN [response |-> ServerError("ValueError"), tasks |-> tasks]
        ELSE LET t == [tasks[i] EXCEPT !.title = task.title,
                                       !.description = task.description]
             IN  [response |-> Ok("", <<t>>), tasks |-> [tasks EXCEPT ![i] = t]]

update_task_result(task_id, task) ==
    LET i == FirstTaskWithId(task_id)
    IN  IF i # 0 THEN update_task_found(i, task)
        ELSE [response |-> HTTPException(404, "Task not found"), tasks |-> tasks]

update_task ==
    \E task_id \in Ids, task \in TaskCreateBodies :
        LET req == Request("update_task", task_id, task, None)
            res == update_task_result(task_id, task)
        IN  IF ~TaskCreateValid(task)
            THEN /\ Serve(req, Unprocessable)
                 /\ UNCHANGED <<tasks, pomodoro_sessions, issued, clock>>
            ELSE /\ Serve(req, res.response)
                 /\ tasks' = res.tasks
                 /\ UNCHANGED <<pomodoro_sessions, issued, clock>>

\* --------------------------------------------------- DELETE /tasks/{task_id}
\* [task for task in tasks if task.id != task_id]
delete_task_result(ts, task_id) ==
    SelectSeq(ts, LAMBDA task : task.id # task_id)

\* Mutant of delete_task: a delete of an id that is not in the store raises 404.
delete_task_Strict ==
    \E task_id \in Ids :
        LET req == Request("delete_task", task_id, NoBody, None)
        IN  IF FirstTaskWithId(task_id) = 0
            THEN /\ Serve(req, HTTPException(404, "Task not found"))
                 /\ UNCHANGED <<tasks, pomodoro_sessions, issued, clock>>
            ELSE /\ Serve(req, Ok("Task deleted", NoValue))
                 /\ tasks' = delete_task_result(tasks, task_id)
                 /\ UNCHANGED <<pomodoro_sessions, issued, clock>>

delete_task ==
    \E task_id \in Ids :
        /\ Serve(Request("delete_task", task_id, NoBody, None), Ok("Task deleted", NoValue))
        /\ tasks' = delete_task_result(tasks, task_id)
        /\ UNCHANGED <<pomodoro_sessions, issued, clock>>

\* ------------------------------------------------------------ POST /pomodoro
\* any(session.task_id == task.id and not session.completed
\*     for session in pomodoro_sessions)
ActiveSessionExists(task_id) ==
    \E k \in 1..Len(pomodoro_sessions) :
        /\ pomodoro_sessions[k].task_id = task_id
        /\ ~pomodoro_sessions[k].completed

\* Mutant of create_pomodoro: the session is created without looking the task
\* up in `tasks`.
create_pomodoro_NoLookup ==
    \E task_id \in Ids :
        LET req == Request("create_pomodoro", task_id, NoBody, None)
        IN  IF ActiveSessionExists(task_id)
            THEN /\ Serve(req, HTTPException(400,
                        "Active Pomodoro session already exists for this task"))
                 /\ UNCHANGED <<tasks, pomodoro_sessions, issued, clock>>
            ELSE \E late \in 0..(MaxClock - clock) :
                    LET new_session ==
                            PomodoroSession(task_id, clock,
                                            clock + late + SessionSeconds, FALSE)
                    IN  /\ pomodoro_sessions' = Append(pomodoro_sessions, new_session)
                        /\ clock' = clock + late
                        /\ Serve(req, Ok("", <<new_session>>))
                        /\ UNCHANGED <<tasks, issued>>

\* datetime.now() is read twice, for start_time and then for end_time: the
\* clock may have advanced by `late` between the two reads.
create_pomodoro ==
    \E task_id \in Ids :
        LET req == Request("create_pomodoro", task_id, NoBody, None)
            i == FirstTaskWithId(task_id)
        IN  IF i = 0
            THEN /\ Serve(req, HTTPException(404, "Task not found"))
                 /\ UNCHANGED <<tasks, pomodoro_sessions, issued, clock>>
            ELSE IF ActiveSessionExists(tasks[i].id)
            THEN /\ Serve(req, HTTPException(400,
                        "Active Pomodoro session already exists for this task"))
                 /\ UNCHANGED <<tasks, pomodoro_sessions, issued, clock>>
            ELSE \E late \in 0..(MaxClock - clock) :
                    LET new_session ==
                            PomodoroSession(tasks[i].id, clock,
                                            clock + late + SessionSeconds, FALSE)
                    IN  /\ pomodoro_sessions' = Append(pomodoro_sessions, new_session)
                        /\ clock' = clock + late
                        /\ Serve(req, Ok("", <<new_session>>))
                        /\ UNCHANGED <<tasks, issued>>

\* ---------------------------------------------- POST /pomodoro/{task_id}/stop
\* The first session, in list order, of this task that is not completed; 0 if none.
FirstActiveSession(task_id) ==
    LET hit == {k \in 1..Len(pomodoro_sessions) :
                    /\ pomodoro_sessions[k].task_id = task_id
                    /\ ~pomodoro_sessions[k].completed}
    IN  IF hit = {} THEN 0 ELSE Min(hit)

\* Mutant of stop_pomodoro: the confirmation is returned also when no session
\* of the task is active.
stop_pomodoro_NoRaise ==
    \E task_id \in Ids :
        LET req == Request("stop_pomodoro", task_id, NoBody, None)
            k == FirstActiveSession(task_id)
        IN  /\ Serve(req, Ok("Pomodoro session stopped", NoValue))
            /\ pomodoro_sessions' =
                  IF k # 0 THEN [pomodoro_sessions EXCEPT ![k].completed = TRUE]
                  ELSE pomodoro_sessions
            /\ UNCHANGED <<tasks, issued, clock>>

stop_pomodoro ==
    \E task_id \in Ids :
        LET req == Request("stop_pomodoro", task_id, NoBody, None)
            k == FirstActiveSession(task_id)
        IN  IF k # 0
            THEN /\ pomodoro_sessions' = [pomodoro_sessions EXCEPT ![k].completed = TRUE]
                 /\ Serve(req, Ok("Pomodoro session stopped", NoValue))
                 /\ UNCHANGED <<tasks, issued, clock>>
            ELSE /\ Serve(req, HTTPException(404,
                        "No active Pomodoro session found for this task"))
                 /\ UNCHANGED <<tasks, pomodoro_sessions, issued, clock>>

\* ------------------------------------------------------- GET /pomodoro/stats
CompletedIndexes == {k \in 1..Len(pomodoro_sessions) : pomodoro_sessions[k].completed}

\* stats[session.task_id] = stats.get(session.task_id, 0) + 1, over the
\* completed sessions: a dict keyed by the task_ids that occur among them.
completed_sessions ==
    [id \in {pomodoro_sessions[k].task_id : k \in CompletedIndexes} |->
        Cardinality({k \in CompletedIndexes : pomodoro_sessions[k].task_id = id})]

RECURSIVE SumDurations(_)
SumDurations(n) ==
    IF n = 0 THEN 0
    ELSE SumDurations(n - 1)
         + (IF pomodoro_sessions[n].completed
            THEN pomodoro_sessions[n].end_time - pomodoro_sessions[n].start_time
            ELSE 0)

\* sum((session.end_time - session.start_time).total_seconds() ...)
total_time_spent == SumDurations(Len(pomodoro_sessions))

get_pomodoro_stats ==
    /\ Serve(Request("get_pomodoro_stats", NoId, NoBody, None),
             Ok("", <<[completed_sessions |-> completed_sessions,
                       total_time_spent |-> total_time_spent]>>))
    /\ UNCHANGED <<tasks, pomodoro_sessions, issued, clock>>

\* ------------------------------------------------------------ specification
Next ==
    \/ Tick
    \/ create_task
    \/ get_tasks
    \/ get_task
    \/ update_task
    \/ delete_task
    \/ create_pomodoro
    \/ stop_pomodoro
    \/ get_pomodoro_stats

Spec == Init /\ [][Next]_vars

\* ------------------------------------------------- handlers running in threads
\* The same handlers when requests are not serialized: the check of a handler
\* and its write are separate steps, and steps of different requests interleave.
Running == {r \in Threads : inflight[r].pc \notin {"idle", "done"}}

\* A request arrives and its handler starts on a free thread.
Begin(r) ==
    /\ inflight[r].pc \in {"idle", "done"}
    /\ served + Cardinality(Running) < MaxServed
    /\ \/ \E task \in TaskCreateBodies :
            inflight' = [inflight EXCEPT ![r] =
                [Idle EXCEPT !.op = "create_task", !.title = task.title,
                             !.description = task.description, !.pc = "check"]]
       \/ \E task_id \in Ids :
            inflight' = [inflight EXCEPT ![r] =
                [Idle EXCEPT !.op = "delete_task", !.task_id = task_id, !.pc = "copy"]]
       \/ \E task_id \in Ids :
            inflight' = [inflight EXCEPT ![r] =
                [Idle EXCEPT !.op = "create_pomodoro", !.task_id = task_id,
                             !.pc = "check"]]
    /\ UNCHANGED <<tasks, pomodoro_sessions, issued, clock, request, response, served>>

\* The handler on thread r returns or raises: its exchange is complete.
Complete(r, resp) ==
    /\ served' = served + 1
    /\ request' = Request(inflight[r].op, inflight[r].task_id, BodyOf(inflight[r]), None)
    /\ response' = resp
    /\ inflight' = [inflight EXCEPT ![r].pc = "done"]

\* create_task: the duplicate check (line 43), then Task(...) and the append.
CreateStep(r) ==
    LET task == BodyOf(inflight[r])
        dup == CreateDuplicateCheck(task)
    IN  /\ inflight[r].op = "create_task"
        /\ IF inflight[r].pc = "check"
           THEN IF ~TaskCreateValid(task)
                THEN /\ Complete(r, Unprocessable)
                     /\ UNCHANGED <<tasks, pomodoro_sessions, issued, clock>>
                ELSE IF dup = "AttributeError"
                THEN /\ Complete(r, ServerError("AttributeError"))
                     /\ UNCHANGED <<tasks, pomodoro_sessions, issued, clock>>
                ELSE IF dup = "True"
                THEN /\ Complete(r, HTTPException(400, "Task already exists"))
                     /\ UNCHANGED <<tasks, pomodoro_sessions, issued, clock>>
                ELSE /\ inflight' = [inflight EXCEPT ![r].pc = "append",
                                                     ![r].passed = TRUE]
                     /\ UNCHANGED <<tasks, pomodoro_sessions, issued, clock,
                                    request, response, served>>
           ELSE /\ inflight[r].pc = "append"
                /\ IF ~TaskValid(CreateKwargs(task))
                   THEN /\ Complete(r, ServerError("ValidationError"))
                        /\ UNCHANGED <<tasks, pomodoro_sessions, issued, clock>>
                   ELSE \E uid \in Ids \ issued :
                           LET new_task == Task(CreateKwargs(task), uid)
                           IN  /\ tasks' = Append(tasks, new_task)
                               /\ issued' = issued \cup {uid}
                               /\ Complete(r, Ok("", <<new_task>>))
                               /\ UNCHANGED <<pomodoro_sessions, clock>>

\* delete_task: the filtered copy is built (line 85, right-hand side), then
\* the global is rebound to it (line 85, the assignment).
DeleteStep(r) ==
    /\ inflight[r].op = "delete_task"
    /\ IF inflight[r].pc = "copy"
       THEN /\ inflight' = [inflight EXCEPT
                   ![r].copy = delete_task_result(tasks, inflight[r].task_id),
                   ![r].pc = "rebind"]
            /\ UNCHANGED <<tasks, pomodoro_sessions, issued, clock,
                           request, response, served>>
       ELSE /\ inflight[r].pc = "rebind"
            /\ tasks' = inflight[r].copy
            /\ Complete(r, Ok("Task deleted", NoValue))
            /\ UNCHANGED <<pomodoro_sessions, issued, clock>>

\* create_pomodoro: the lookup and the active-session check (lines 91-94), then
\* the session is built and appended (lines 95-101).
StartStep(r) ==
    LET i == FirstTaskWithId(inflight[r].task_id)
    IN  /\ inflight[r].op = "create_pomodoro"
        /\ IF inflight[r].pc = "check"
           THEN IF i = 0
                THEN /\ Complete(r, HTTPException(404, "Task not found"))
                     /\ UNCHANGED <<tasks, pomodoro_sessions, issued, clock>>
                ELSE IF ActiveSessionExists(tasks[i].id)
                THEN /\ Complete(r, HTTPException(400,
                            "Active Pomodoro session already exists for this task"))
                     /\ UNCHANGED <<tasks, pomodoro_sessions, issued, clock>>
                ELSE /\ inflight' = [inflight EXCEPT ![r].pc = "append",
                                                     ![r].passed = TRUE]
                     /\ UNCHANGED <<tasks, pomodoro_sessions, issued, clock,
                                    request, response, served>>
           ELSE /\ inflight[r].pc = "append"
                /\ \E late \in 0..(MaxClock - clock) :
                      LET new_session ==
                              PomodoroSession(inflight[r].task_id, clock,
                                              clock + late + SessionSeconds, FALSE)
                      IN  /\ pomodoro_sessions' = Append(pomodoro_sessions, new_session)
                          /\ clock' = clock + late
                          /\ Complete(r, Ok("", <<new_session>>))
                          /\ UNCHANGED <<tasks, issued>>

NextConcurrent ==
    \/ Tick
    \/ \E r \in Threads : Begin(r)
    \/ \E r \in Threads : CreateStep(r)
    \/ \E r \in Threads : DeleteStep(r)
    \/ \E r \in Threads : StartStep(r)

SpecConcurrent == Init /\ [][NextConcurrent]_vars

\* ================================================================= properties
\* A request was served in this step; request' and response' are its exchange.
Served(op) == served' = served + 1 /\ request'.op = op

\* The title a stored task carries (class Task names the field `name`).
TitleOf(t) == IF "title" \in DOMAIN t THEN t.title ELSE t.name

TaskIds(ts) == {ts[i].id : i \in 1..Len(ts)}
TaskTitles(ts) == {TitleOf(ts[i]) : i \in 1..Len(ts)}

\* Every reachable state: neither list ever holds an element.  create_task is
\* the only handler that appends to `tasks`, and its Task(...) call never
\* validates; create_pomodoro appends only for a task found in `tasks`.
StoresStayEmpty == tasks = << >> /\ pomodoro_sessions = << >>

\* C1 (the statement): no two tasks in the store have the same title.
TitlesUnique ==
    \A i, j \in 1..Len(tasks) : TitleOf(tasks[i]) = TitleOf(tasks[j]) => i = j

\* C2 (the statement): for every task_id at most one session is not completed.
OneActiveSessionPerTask ==
    \A i, j \in 1..Len(pomodoro_sessions) :
        (/\ pomodoro_sessions[i].task_id = pomodoro_sessions[j].task_id
         /\ ~pomodoro_sessions[i].completed
         /\ ~pomodoro_sessions[j].completed) => i = j

\* C3: create(title, description) with valid arguments, on a store holding no
\* task with that title, succeeds: exactly one task is appended, it carries the
\* given title and description, has status TODO and an id no stored task had,
\* and it is the task returned.
C3_CreateFreshSucceeds ==
    [][(/\ Served("create_task")
        /\ TaskCreateValid(BodyOf(request'))
        /\ request'.title \notin TaskTitles(tasks))
       => (/\ response'.status = 200
           /\ Len(tasks') = Len(tasks) + 1
           /\ SubSeq(tasks', 1, Len(tasks)) = tasks
           /\ TitleOf(tasks'[Len(tasks')]) = request'.title
           /\ tasks'[Len(tasks')].description = request'.description
           /\ tasks'[Len(tasks')].status = "TODO"
           /\ tasks'[Len(tasks')].id \notin TaskIds(tasks)
           /\ response'.value = <<tasks'[Len(tasks')]>>)]_vars

C7_NotFound ==
    [][/\ (/\ Served("get_task") \/ Served("update_task")
           /\ Served("update_task") => TaskCreateValid(BodyOf(request'))
           /\ request'.task_id \notin TaskIds(tasks))
          => (/\ response'.status = 404
              /\ tasks' = tasks
              /\ pomodoro_sessions' = pomodoro_sessions)
       /\ (/\ Served("get_task")
           /\ request'.task_id \in TaskIds(tasks))
          => (/\ response'.status = 200
              /\ Len(response'.value) = 1
              /\ response'.value[1].id = request'.task_id
              /\ \E i \in 1..Len(tasks) : tasks[i] = response'.value[1]
              /\ tasks' = tasks)]_vars

\* C7's case: an update, then answered 404, of an id that is not in the store.
C7_Witness ==
    /\ request.op = "update_task"
    /\ response.status = 404
    /\ request.task_id \notin TaskIds(tasks)

\* C8: delete(id) never fails and is idempotent: it is answered with the same
\* confirmation whether or not the id is present, afterwards no task has the
\* id, the other tasks keep their order, and a second delete(id) changes
\* nothing.
C8_DeleteIdempotent ==
    [][Served("delete_task")
       => (/\ response' = Ok("Task deleted", NoValue)
           /\ request'.task_id \notin TaskIds(tasks')
           /\ tasks' = SelectSeq(tasks, LAMBDA t : t.id # request'.task_id)
           /\ delete_task_result(tasks', request'.task_id) = tasks'
           /\ pomodoro_sessions' = pomodoro_sessions)]_vars

\* C8's case: a delete of an id that is not in the store, answered 200, after
\* at least one earlier request.
C8_Witness ==
    /\ request.op = "delete_task"
    /\ response.status = 200
    /\ response.detail = "Task deleted"
    /\ served >= 2

\* C10: start(task_id) with a task_id no stored task has is answered 404
\* (NotFound) and leaves the session list as it was.
C10_StartUnknownTask ==
    [][(/\ Served("create_pomodoro")
        /\ request'.task_id \notin TaskIds(tasks))
       => (/\ response'.status = 404
           /\ pomodoro_sessions' = pomodoro_sessions
           /\ tasks' = tasks)]_vars

\* C10's case: a start answered 404 for an id that is not in the store.
C10_Witness ==
    /\ request.op = "create_pomodoro"
    /\ response.status = 404
    /\ request.task_id \notin TaskIds(tasks)

\* C11: stop(task_id) when no session of that task_id is uncompleted is
\* answered 404 (NotFound) and leaves every session, and the tasks, unchanged.
C11_StopWithoutActive ==
    [][(/\ Served("stop_pomodoro")
        /\ \A k \in 1..Len(pomodoro_sessions) :
              pomodoro_sessions[k].task_id = request'.task_id
                  => pomodoro_sessions[k].completed)
       => (/\ response'.status = 404
           /\ pomodoro_sessions' = pomodoro_sessions
           /\ tasks' = tasks)]_vars

\* C11's case: a stop, answered 404, of a task_id with no uncompleted session.
C11_Witness ==
    /\ request.op = "stop_pomodoro"
    /\ response.status = 404
    /\ FirstActiveSession(request.task_id) = 0

\* C12 (the statement): stats().completed_sessions maps exactly the task_ids
\* with a completed session to the number of their completed sessions, and
\* the values sum to the number of completed sessions.
StatsCountCompleted ==
    /\ DOMAIN completed_sessions =
          {pomodoro_sessions[k].task_id : k \in CompletedIndexes}
    /\ \A id \in DOMAIN completed_sessions :
          /\ completed_sessions[id] > 0
          /\ completed_sessions[id] =
                Cardinality({k \in CompletedIndexes : pomodoro_sessions[k].task_id = id})
    /\ \A id \in Ids :
          (\A k \in CompletedIndexes : pomodoro_sessions[k].task_id # id)
              => id \notin DOMAIN completed_sessions

\* C13 (the statement): every session ends exactly SessionSeconds after it
\* starts, and total_time_spent is SessionSeconds for each completed session.
SessionsLastExactly ==
    /\ \A k \in 1..Len(pomodoro_sessions) :
          pomodoro_sessions[k].end_time = pomodoro_sessions[k].start_time + SessionSeconds
    /\ total_time_spent = SessionSeconds * Cardinality(CompletedIndexes)

\* C14 (the statement): a successful stop completes exactly the first
\* uncompleted session of the task; the session list only grows by appends and
\* no completed flag goes back to FALSE.
SessionsOnlyProgress ==
    [][/\ Len(pomodoro_sessions') >= Len(pomodoro_sessions)
       /\ \A k \in 1..Len(pomodoro_sessions) :
             /\ pomodoro_sessions'[k].task_id = pomodoro_sessions[k].task_id
             /\ pomodoro_sessions'[k].start_time = pomodoro_sessions[k].start_time
             /\ pomodoro_sessions'[k].end_time = pomodoro_sessions[k].end_time
             /\ pomodoro_sessions[k].completed => pomodoro_sessions'[k].completed
       /\ (Served("stop_pomodoro") /\ response'.status = 200)
             => (/\ FirstActiveSession(request'.task_id) # 0
                 /\ pomodoro_sessions' =
                       [pomodoro_sessions EXCEPT
                            ![FirstActiveSession(request'.task_id)].completed = TRUE]
                 /\ tasks' = tasks)]_vars

\* C15 (the statement): a successful update changes the title and description
\* of the task with that id and nothing else.
UpdateFrame ==
    [][(Served("update_task") /\ response'.status = 200)
       => (/\ Len(tasks') = Len(tasks)
           /\ pomodoro_sessions' = pomodoro_sessions
           /\ \A i \in 1..Len(tasks) :
                 /\ tasks'[i].id = tasks[i].id
                 /\ tasks'[i].status = tasks[i].status
                 /\ tasks[i].id # request'.task_id => tasks'[i] = tasks[i])]_vars

\* C16 (the statement): delete leaves the session list as it was.
DeleteKeepsSessions ==
    [][Served("delete_task") => pomodoro_sessions' = pomodoro_sessions]_vars

\* C17 (the statement): every stored task has status TODO, so the DONE and
\* IN_PROGRESS listings are empty and the TODO listing is the whole list.
AllTasksTodo ==
    /\ \A i \in 1..Len(tasks) : tasks[i].status = "TODO"
    /\ get_tasks_result("DONE") = << >>
    /\ get_tasks_result("IN_PROGRESS") = << >>
    /\ get_tasks_result("TODO") = get_tasks_result(None)

\* C18 (the statement): list() is the store, and list(status) is the
\* sub-sequence of list() whose status is the filter.
ListIsStoreInOrder ==
    /\ get_tasks_result(None) = tasks
    /\ \A st \in StatusPattern :
          get_tasks_result(st) = SelectSeq(get_tasks_result(None), LAMBDA t : t.status = st)

\* Handler r passed its check and is about to write, while handler r2 of the
\* same operation passed its check too and has not written yet.
BothPassed(r, r2, op) ==
    /\ r # r2
    /\ inflight[r].op = op /\ inflight[r2].op = op
    /\ inflight[r].passed /\ inflight[r2].passed
    /\ inflight[r].pc = "append"
    /\ inflight[r2].pc \in {"append", "done"}

TasksTitled(ts, title) == {i \in 1..Len(ts) : TitleOf(ts[i]) = title}

ActiveSessions(ss, task_id) ==
    {k \in 1..Len(ss) : ss[k].task_id = task_id /\ ~ss[k].completed}

\* C19: without serialization, two create requests with the same title that
\* both passed the duplicate check both append, and the store then holds two
\* tasks with that title; two start requests for the same task_id that both
\* passed the active-session check both append, and the task then has two
\* uncompleted sessions.  (The other request is either still before its
\* append, or has appended and its element is in the list.)
C19_RacingRequestsBothAppend ==
    [][\A r, r2 \in Threads :
        /\ (/\ BothPassed(r, r2, "create_task")
            /\ inflight[r].title = inflight[r2].title
            /\ inflight[r2].pc = "done" => TasksTitled(tasks, inflight[r].title) # {}
            /\ inflight'[r].pc = "done")
           => (/\ Len(tasks') = Len(tasks) + 1
               /\ SubSeq(tasks', 1, Len(tasks)) = tasks
               /\ TitleOf(tasks'[Len(tasks')]) = inflight[r].title
               /\ inflight[r2].pc = "done"
                     => Cardinality(TasksTitled(tasks', inflight[r].title)) >= 2)
        /\ (/\ BothPassed(r, r2, "create_pomodoro")
            /\ inflight[r].task_id = inflight[r2].task_id
            /\ inflight[r2].pc = "done"
                  => ActiveSessions(pomodoro_sessions, inflight[r].task_id) # {}
            /\ inflight'[r].pc = "done")
           => (/\ Len(pomodoro_sessions') = Len(pomodoro_sessions) + 1
               /\ SubSeq(pomodoro_sessions', 1, Len(pomodoro_sessions)) = pomodoro_sessions
               /\ inflight[r2].pc = "done"
                     => Cardinality(ActiveSessions(pomodoro_sessions',
                                                   inflight[r].task_id)) >= 2)]_vars

\* C20 (the statement): a stored task leaves the store only in the rebinding
\* step of a delete of its own id.
TaskStaysUntilDeleted ==
    [][\A i \in 1..Len(tasks) :
          \/ \E j \in 1..Len(tasks') : tasks'[j] = tasks[i]
          \/ \E r \in Threads :
                /\ inflight[r].op = "delete_task"
                /\ inflight[r].pc = "rebind"
                /\ inflight'[r].pc = "done"
                /\ inflight[r].task_id = tasks[i].id]_vars
====
